---- MODULE Spec2Model ----
(***************************************************************************)
(* A model of the three-tier simulation pipeline:                          *)
(*   agent.py             the interactive agent (LLM call, JSON check,     *)
(*                        config file, launch of the CAE host)             *)
(*   simulation_runner.py the driver script the CAE host executes          *)
(*   cantilever_poc.py    the stand-alone script with module constants     *)
(*                                                                         *)
(* Texts are sequences of elements.  An element is a character [ch |-> c]  *)
(* or a complete JSON document [doc |-> v] standing for the characters     *)
(* that encode the JSON value v.  The backtick is written "bt", the space  *)
(* "sp" and the newline "nl".  Real numbers of a config (metres, pascals)  *)
(* are opaque to the code and are written as integers.                     *)
(***************************************************************************)
EXTENDS Integers, Sequences, FiniteSets, TLC

VARIABLES
    \* ---- agent.py: main() and the functions it calls
    a_pc,          \* position of main(): start, prompt, llm, validate, save, launch, wait, exited, crashed
    user_request,  \* the line read by input()
    json_string,   \* result of get_simulation_config_from_gemini
    config_data,   \* result of json.loads in save_config_and_run_abaqus
    \* ---- the environment both programs share
    fs,            \* directory -> text of config.json in it (NoText when absent)
    run_env,       \* value of ABAQUS_CONFIG_PATH handed to the host
    h_pc,          \* host process: none, starting, script, exited
    h_cwd,         \* working directory of the host process
    exit_code,     \* exit status of the host process
    \* ---- simulation_runner.py / cantilever_poc.py
    d_prog,        \* which script the host executes
    d_pc,          \* position of the script
    config,        \* result of json.load in the driver
    params,        \* parameters extracted so far (sequence of looked-up keys)
    disc,          \* <<N_ELEMENTS_LENGTH, N_ELEMENTS_WIDTH, N_ELEMENTS_HEIGHT>>
    precheck,      \* report of the mesh pre-check
    calls,         \* CAE host calls issued so far, in order
    d_out,         \* notices printed by the driver
    d_err,         \* exception that ended the driver, or None
    \* ---- history of the current agent turn
    turn,          \* the current turn: llm calls, config writes, host launches, driver
                   \* reads of the config file, and the last message the agent printed
    \* ---- post-processing of a response taken alone
    f_pc, f_R, f_sep, f_plain, f_fenced

agentVars == <<a_pc, user_request, json_string, config_data>>
envVars   == <<fs, run_env, h_pc, h_cwd, exit_code>>
drvVars   == <<d_prog, d_pc, config, params, disc, precheck, calls, d_out, d_err>>
histVars  == <<turn>>
fenceVars == <<f_pc, f_R, f_sep, f_plain, f_fenced>>
vars      == <<agentVars, envVars, drvVars, histVars, fenceVars>>

None == "None"

(***************************************************************************)
(* Bounds of the model.                                                    *)
(***************************************************************************)
\* keys an LLM-made or hand-made config object may lack
MaxMissing == 1
\* largest element count per direction in the mesh pre-check taken alone
MaxElems == 30
\* number of chunks a response text is put together from
MaxChunks == 3

(***************************************************************************)
(* Texts (Python str).                                                     *)
(***************************************************************************)
Ch(c)  == [ch |-> c]
Doc(v) == [doc |-> v]
IsCh(e)  == "ch" \in DOMAIN e
IsDoc(e) == "doc" \in DOMAIN e
BT == Ch("bt")
NL == Ch("nl")

\* str.isspace for one character
IsSpace(e) == IsCh(e) /\ e.ch \in {"sp", "nl"}

\* str.startswith / str.endswith
StartsWith(s, p) == Len(s) >= Len(p) /\ SubSeq(s, 1, Len(p)) = p
EndsWith(s, p)   == Len(s) >= Len(p) /\ SubSeq(s, Len(s) - Len(p) + 1, Len(s)) = p

\* s[n:] and s[:-n]
DropFirst(s, n) == SubSeq(s, n + 1, Len(s))
DropLast(s, n)  == SubSeq(s, 1, Len(s) - n)

RECURSIVE LStrip(_)
LStrip(s) == IF s # <<>> /\ IsSpace(Head(s)) THEN LStrip(Tail(s)) ELSE s

RECURSIVE RStrip(_)
RStrip(s) == IF s # <<>> /\ IsSpace(s[Len(s)]) THEN RStrip(DropLast(s, 1)) ELSE s

\* str.strip()
Strip(s) == RStrip(LStrip(s))

FENCE_JSON == <<BT, BT, BT, Ch("j"), Ch("s"), Ch("o"), Ch("n")>>
FENCE      == <<BT, BT, BT>>

\* the variant that forgets the second .strip()
PostProcessNoStrip(text) ==
    LET s1 == IF StartsWith(text, FENCE_JSON) THEN Strip(DropFirst(text, 7)) ELSE text
    IN  IF EndsWith(s1, FENCE) THEN DropLast(s1, 3) ELSE s1

\* agent.py 144-150: strip markdown tags if the model adds them
PostProcess(text) ==
    LET s1 == IF StartsWith(text, FENCE_JSON) THEN Strip(DropFirst(text, 7)) ELSE text
    IN  IF EndsWith(s1, FENCE) THEN Strip(DropLast(s1, 3)) ELSE s1

\* an optional text: Python None, or a str; an absent file, or its content
NoText     == [some |-> FALSE, text |-> <<>>]
Some(s)    == [some |-> TRUE, text |-> s]

\* bool(json_string) in `if json_string:` (agent.py 254)
Truthy(j) == j.some /\ j.text # <<>>

(***************************************************************************)
(* JSON values (Python objects made by json.loads).                        *)
(*   [type |-> "dict", val |-> f]   f a function from keys to values       *)
(*   [type |-> "list", val |-> <<>>]                                       *)
(*   NoValue: no value (the variable is unbound, or decoding failed)       *)
(***************************************************************************)
Dict(f)   == [type |-> "dict", val |-> f]
EmptyList == [type |-> "list", val |-> <<>>]
NoValue   == [type |-> "none", val |-> <<>>]
IsDict(v) == v.type = "dict"

Without(f, k) == [x \in (DOMAIN f) \ {k} |-> f[x]]
Range(q) == {q[i] : i \in DOMAIN q}

\* the decoded value of the text, or NoValue when the text is not JSON: optional
\* white space, one document, optional white space
JsonLoads(s) ==
    LET t == Strip(s)
    IN  IF Len(t) = 1 /\ IsDoc(t[1]) THEN t[1].doc ELSE NoValue

\* the variant that never raises
JsonDecodeErrorNever(s) == FALSE

\* json.loads raises JSONDecodeError
JsonDecodeError(s) == JsonLoads(s) = NoValue

\* json.dump(v, f, indent=2): the text of one document
JsonDump(v) == <<Doc(v)>>

(***************************************************************************)
(* Config objects.                                                         *)
(***************************************************************************)
TopKeys == {"MODEL_NAME", "TEST_TYPE", "GEOMETRY", "MATERIAL", "LOADING", "DISCRETIZATION"}

\* the schema of the system prompt (agent.py 40-62) with a test type and a mesh
FullConfig(tt, m) ==
    [MODEL_NAME |-> "Unique_Model_Name",
     TEST_TYPE  |-> tt,
     GEOMETRY   |-> [length_m |-> 1000, width_m |-> 100, height_m |-> 100],
     MATERIAL   |-> [name |-> "Steel", youngs_modulus_pa |-> 200, poisson_ratio |-> 3],
     LOADING    |-> [tip_load_n |-> 1000],
     DISCRETIZATION |-> [elements_length |-> m[1], elements_width |-> m[2],
                         elements_height |-> m[3]]]

\* a path is <<key>> or <<section, field>>
FieldPaths ==
    {<<"GEOMETRY", f>> : f \in {"length_m", "width_m", "height_m"}}
    \cup {<<"MATERIAL", f>> : f \in {"name", "youngs_modulus_pa", "poisson_ratio"}}
    \cup {<<"LOADING", "tip_load_n">>}
    \cup {<<"DISCRETIZATION", f>> : f \in {"elements_length", "elements_width", "elements_height"}}
TopPaths == {<<k>> : k \in TopKeys}

RemovePath(d, p) ==
    IF Len(p) = 1 THEN Without(d, p[1])
    ELSE IF p[1] \in DOMAIN d THEN [d EXCEPT ![p[1]] = Without(@, p[2])]
    ELSE d

RECURSIVE RemoveAll(_, _)
RemoveAll(d, P) ==
    IF P = {} THEN d
    ELSE LET p == CHOOSE q \in P : TRUE IN RemoveAll(RemovePath(d, p), P \ {p})

\* the objects got from the full ones by leaving out at most n of the paths
ObjectsMissing(full, paths, n) ==
    {RemoveAll(d, P) : d \in full, P \in {Q \in SUBSET paths : Cardinality(Q) <= n}}

TestTypes == {"CantileverBeam", "TaylorImpact", "Buckling"}

\* meshes of 275, 1000 and 3751 nodes
Meshes == {<<10, 4, 4>>, <<9, 9, 9>>, <<30, 10, 10>>}

\* what the language model may answer with: any JSON value of the kinds above
AgentValues ==
    {EmptyList} \cup
    {Dict(d) : d \in ObjectsMissing({FullConfig(tt, m) : tt \in TestTypes,
                                     m \in {<<10, 4, 4>>, <<30, 10, 10>>}},
                                    TopPaths, MaxMissing)}

\* what a hand-written config.json may hold
DriverValues ==
    {EmptyList} \cup
    {Dict(d) : d \in ObjectsMissing({FullConfig(tt, m) : tt \in TestTypes, m \in Meshes},
                                    TopPaths \cup FieldPaths, MaxMissing)}

\* response texts of the language model: a body between a prefix and a suffix
Prefixes == {<<>>, FENCE_JSON, FENCE_JSON \o <<NL>>, FENCE, <<NL>>}
Suffixes == {<<>>, FENCE, <<NL>> \o FENCE, <<NL>>}
Bodies   == {<<>>, <<Ch("x")>>} \cup {JsonDump(v) : v \in AgentValues}
Responses == {p \o b \o q : p \in Prefixes, b \in Bodies, q \in Suffixes}

\* str.lower() of the lines a user may type
UserInputs == {"q", "Q", "quit", "Quit", "exit", "EXIT", "sim a 1m steel beam"}
Lower(u) ==
    CASE u = "Q" -> "q"
      [] u = "Quit" -> "quit"
      [] u = "EXIT" -> "exit"
      [] OTHER -> u

\* directories: the one agent.py and simulation_runner.py are in, and another
ScriptDir == "script_dir"
Dirs == {ScriptDir, "other_dir"}
\* os.path.join(script_dir, "config.json") (agent.py 226): <<directory, name>>
ConfigPath(dir) == <<dir, "config.json">>
\* CONFIG_FILE = 'config.json' (simulation_runner.py 160), relative to the cwd
CONFIG_FILE == "config.json"

(***************************************************************************)
(* The driver: simulation_runner.py, and cantilever_poc.py.                *)
(***************************************************************************)
NoError == [exc |-> "None", at |-> ""]
Raised(e, where) == [exc |-> e, at |-> where]

NoReport == [done |-> FALSE, total_nodes |-> 0, total_elements |-> 0, within_limit |-> FALSE]

\* dict.get(key): the value, or None
Get(d, k) == IF k \in DOMAIN d THEN d[k] ELSE None

\* the subscripts of run_cantilever_beam, in the order it evaluates them
ReadOrder ==
    << <<"MODEL_NAME">>,
       <<"GEOMETRY">>, <<"GEOMETRY", "length_m">>, <<"GEOMETRY", "width_m">>,
       <<"GEOMETRY", "height_m">>,
       <<"MATERIAL">>, <<"MATERIAL", "name">>, <<"MATERIAL", "youngs_modulus_pa">>,
       <<"MATERIAL", "poisson_ratio">>,
       <<"LOADING">>, <<"LOADING", "tip_load_n">>,
       <<"DISCRETIZATION">>, <<"DISCRETIZATION", "elements_length">>,
       <<"DISCRETIZATION", "elements_width">>, <<"DISCRETIZATION", "elements_height">> >>

\* the subscript config[k] or section[f] finds its key
HasPath(d, p) ==
    /\ p[1] \in DOMAIN d
    /\ Len(p) = 2 => p[2] \in DOMAIN d[p[1]]

\* the limit of the mesh pre-check
NodeLimit == 1000

\* the variant that counts exactly NodeLimit nodes as exceeding
MeshPreCheckStrict(L, W, H) ==
    [done |-> TRUE,
     total_nodes    |-> (L + 1) * (W + 1) * (H + 1),
     total_elements |-> L * W * H,
     within_limit   |-> ~((L + 1) * (W + 1) * (H + 1) >= NodeLimit)]

\* the node limit calculator and its report
MeshPreCheck(L, W, H) ==
    [done |-> TRUE,
     total_nodes    |-> (L + 1) * (W + 1) * (H + 1),
     total_elements |-> L * W * H,
     within_limit   |-> ~((L + 1) * (W + 1) * (H + 1) > NodeLimit)]

\* the variant that takes the 'return' the comment of line 59 suggests
AfterPreCheckReturn(report) == IF report.within_limit THEN "cae" ELSE "finished"

\* where the driver goes after the pre-check: on, whatever the report
AfterPreCheck(report) == "cae"

\* the CAE host calls of cantilever_poc.py, in program order
PocBody ==
    << [line |-> 50,  call |-> "mdb.Model"],
       [line |-> 51,  call |-> "model.ConstrainedSketch"],
       [line |-> 52,  call |-> "sketch.rectangle"],
       [line |-> 53,  call |-> "model.Part"],
       [line |-> 54,  call |-> "part.BaseSolidExtrude"],
       [line |-> 60,  call |-> "model.Material"],
       [line |-> 61,  call |-> "material.Elastic"],
       [line |-> 62,  call |-> "model.HomogeneousSolidSection"],
       [line |-> 64,  call |-> "part.SectionAssignment"],
       [line |-> 71,  call |-> "assembly.Instance"],
       [line |-> 77,  call |-> "model.StaticStep"],
       [line |-> 78,  call |-> "instance.faces.findAt"],
       [line |-> 79,  call |-> "instance.vertices.findAt"],
       [line |-> 80,  call |-> "assembly.Set:Set-FixedEnd"],
       [line |-> 82,  call |-> "assembly.Set:Set-LoadPoint"],
       [line |-> 84,  call |-> "model.EncastreBC"],
       [line |-> 85,  call |-> "model.ConcentratedForce"],
       [line |-> 94,  call |-> "part.setMeshControls"],
       [line |-> 102, call |-> "part.edges.findAt:len_1"],
       [line |-> 103, call |-> "part.edges.findAt:len_2"],
       [line |-> 104, call |-> "part.edges.findAt:len_3"],
       [line |-> 105, call |-> "part.edges.findAt:len_4"],
       [line |-> 109, call |-> "part.edges.findAt:wid_1"],
       [line |-> 110, call |-> "part.edges.findAt:wid_2"],
       [line |-> 111, call |-> "part.edges.findAt:wid_3"],
       [line |-> 112, call |-> "part.edges.findAt:wid_4"],
       [line |-> 116, call |-> "part.edges.findAt:hgt_1"],
       [line |-> 117, call |-> "part.edges.findAt:hgt_2"],
       [line |-> 118, call |-> "part.edges.findAt:hgt_3"],
       [line |-> 119, call |-> "part.edges.findAt:hgt_4"],
       [line |-> 123, call |-> "part.seedEdgeByNumber:length_edges"],
       [line |-> 124, call |-> "part.seedEdgeByNumber:width_edges"],
       [line |-> 125, call |-> "part.seedEdgeByNumber:height_edges"],
       [line |-> 128, call |-> "part.generateMesh"],
       [line |-> 132, call |-> "mdb.Job"] >>

\* the variant that generates the mesh before it seeds the edges
RunnerBodyMeshFirst ==
    [i \in 1..35 |-> PocBody[IF i = 31 THEN 34 ELSE IF i \in 32..34 THEN i - 1 ELSE i]]

\* the CAE host calls of run_cantilever_beam, in program order
RunnerBody ==
    << [line |-> 67,  call |-> "mdb.Model"],
       [line |-> 68,  call |-> "model.ConstrainedSketch"],
       [line |-> 69,  call |-> "sketch.rectangle"],
       [line |-> 70,  call |-> "model.Part"],
       [line |-> 71,  call |-> "part.BaseSolidExtrude"],
       [line |-> 76,  call |-> "model.Material"],
       [line |-> 77,  call |-> "material.Elastic"],
       [line |-> 78,  call |-> "model.HomogeneousSolidSection"],
       [line |-> 80,  call |-> "part.SectionAssignment"],
       [line |-> 86,  call |-> "assembly.Instance"],
       [line |-> 91,  call |-> "model.StaticStep"],
       [line |-> 94,  call |-> "instance.faces.findAt"],
       [line |-> 95,  call |-> "instance.vertices.findAt"],
       [line |-> 98,  call |-> "assembly.Set:Set-FixedEnd"],
       [line |-> 100, call |-> "assembly.Set:Set-LoadPoint"],
       [line |-> 104, call |-> "model.EncastreBC"],
       [line |-> 105, call |-> "model.ConcentratedForce"],
       [line |-> 112, call |-> "part.setMeshControls"],
       [line |-> 118, call |-> "part.edges.findAt:len_1"],
       [line |-> 119, call |-> "part.edges.findAt:len_2"],
       [line |-> 120, call |-> "part.edges.findAt:len_3"],
       [line |-> 121, call |-> "part.edges.findAt:len_4"],
       [line |-> 124, call |-> "part.edges.findAt:wid_1"],
       [line |-> 125, call |-> "part.edges.findAt:wid_2"],
       [line |-> 126, call |-> "part.edges.findAt:wid_3"],
       [line |-> 127, call |-> "part.edges.findAt:wid_4"],
       [line |-> 130, call |-> "part.edges.findAt:hgt_1"],
       [line |-> 131, call |-> "part.edges.findAt:hgt_2"],
       [line |-> 132, call |-> "part.edges.findAt:hgt_3"],
       [line |-> 133, call |-> "part.edges.findAt:hgt_4"],
       [line |-> 137, call |-> "part.seedEdgeByNumber:length_edges"],
       [line |-> 138, call |-> "part.seedEdgeByNumber:width_edges"],
       [line |-> 139, call |-> "part.seedEdgeByNumber:height_edges"],
       [line |-> 142, call |-> "part.generateMesh"],
       [line |-> 145, call |-> "mdb.Job"] >>

Body(prog) == IF prog = "cantilever_poc" THEN PocBody ELSE RunnerBody

\* N_ELEMENTS_LENGTH, N_ELEMENTS_WIDTH, N_ELEMENTS_HEIGHT of cantilever_poc.py
PocDisc == <<20, 4, 4>>

\* the state of a script that is not running
DrvIdle ==
    /\ d_prog = "none" /\ d_pc = "idle" /\ config = NoValue /\ params = <<>>
    /\ disc = <<0, 0, 0>> /\ precheck = NoReport /\ calls = <<>> /\ d_out = {}
    /\ d_err = NoError

\* simulation_runner.py 160-170: open CONFIG_FILE in the working directory and
\* decode it; IOError is printed and raised again, a decoding error is not caught
DrvReadConfig ==
    /\ h_pc = "script" /\ d_prog = "simulation_runner" /\ d_pc = "main"
    /\ LET file == fs[h_cwd] IN
       IF ~file.some
       THEN /\ d_pc' = "raised" /\ d_err' = Raised("IOError", CONFIG_FILE)
            /\ d_out' = d_out \cup {"Error: config.json not found"}
            /\ turn' = [turn EXCEPT !.opened = <<h_cwd, CONFIG_FILE>>]
            /\ UNCHANGED config
       ELSE /\ turn' = [turn EXCEPT !.reads = @ + 1, !.opened = <<h_cwd, CONFIG_FILE>>]
            /\ IF JsonDecodeError(file.text)
               THEN /\ d_pc' = "raised" /\ d_err' = Raised("JSONDecodeError", CONFIG_FILE)
                    /\ UNCHANGED <<config, d_out>>
               ELSE /\ config' = JsonLoads(file.text) /\ d_pc' = "dispatch"
                    /\ UNCHANGED <<d_err, d_out>>
    /\ UNCHANGED <<d_prog, params, disc, precheck, calls>>
    /\ UNCHANGED <<agentVars, envVars, fenceVars>>

\* the variant that runs the cantilever routine for every unrecognised type
DrvDispatchDefault ==
    /\ h_pc = "script" /\ d_pc = "dispatch"
    /\ IF ~IsDict(config)
       THEN /\ d_pc' = "raised" /\ d_err' = Raised("AttributeError", "get")
            /\ UNCHANGED d_out
       ELSE LET test_type == Get(config.val, "TEST_TYPE") IN
            /\ d_err' = d_err
            /\ IF test_type = "TaylorImpact"
               THEN /\ d_pc' = "finished"
                    /\ d_out' = d_out \cup {"TaylorImpact not yet implemented",
                                            "Script execution finished"}
               ELSE /\ d_pc' = "extract"
                    /\ d_out' = d_out \cup {"Executing CantileverBeam workflow"}
    /\ UNCHANGED <<d_prog, config, params, disc, precheck, calls>>
    /\ UNCHANGED <<agentVars, envVars, histVars, fenceVars>>

\* simulation_runner.py 172-186: the switch on TEST_TYPE
DrvDispatch ==
    /\ h_pc = "script" /\ d_pc = "dispatch"
    /\ IF ~IsDict(config)
       THEN /\ d_pc' = "raised" /\ d_err' = Raised("AttributeError", "get")
            /\ UNCHANGED d_out
       ELSE LET test_type == Get(config.val, "TEST_TYPE") IN
            /\ d_err' = d_err
            /\ IF test_type = "CantileverBeam"
               THEN /\ d_pc' = "extract"
                    /\ d_out' = d_out \cup {"Executing CantileverBeam workflow"}
               ELSE IF test_type = "TaylorImpact"
               THEN /\ d_pc' = "finished"
                    /\ d_out' = d_out \cup {"TaylorImpact not yet implemented",
                                            "Script execution finished"}
               ELSE /\ d_pc' = "finished"
                    /\ d_out' = d_out \cup {"Error: Unknown TEST_TYPE",
                                            "Script execution finished"}
    /\ UNCHANGED <<d_prog, config, params, disc, precheck, calls>>
    /\ UNCHANGED <<agentVars, envVars, histVars, fenceVars>>

\* the variant that reads with dict.get: a missing key gives None and no error
DrvExtractLenient ==
    /\ h_pc = "script" /\ d_pc = "extract"
    /\ params' = Append(params, ReadOrder[Len(params) + 1])
    /\ IF Len(params') = Len(ReadOrder)
       THEN /\ d_pc' = "precheck"
            /\ disc' = <<1, 1, 1>>
       ELSE UNCHANGED <<d_pc, disc>>
    /\ UNCHANGED <<d_prog, config, precheck, calls, d_out, d_err>>
    /\ UNCHANGED <<agentVars, envVars, histVars, fenceVars>>

\* simulation_runner.py 20-43: one subscript of the parameter extraction
DrvExtract ==
    /\ h_pc = "script" /\ d_pc = "extract"
    /\ LET p == ReadOrder[Len(params) + 1] IN
       IF HasPath(config.val, p)
       THEN /\ params' = Append(params, p)
            /\ d_err' = d_err
            /\ IF Len(params') = Len(ReadOrder)
               THEN /\ d_pc' = "precheck"
                    /\ disc' = <<config.val.DISCRETIZATION.elements_length,
                                 config.val.DISCRETIZATION.elements_width,
                                 config.val.DISCRETIZATION.elements_height>>
               ELSE UNCHANGED <<d_pc, disc>>
       ELSE /\ d_pc' = "raised" /\ d_err' = Raised("KeyError", p[Len(p)])
            /\ UNCHANGED <<params, disc>>
    /\ UNCHANGED <<d_prog, config, precheck, calls, d_out>>
    /\ UNCHANGED <<agentVars, envVars, histVars, fenceVars>>

\* simulation_runner.py 45-62, cantilever_poc.py 26-44: the mesh pre-check
DrvPreCheck ==
    /\ h_pc = "script" /\ d_pc = "precheck"
    /\ precheck' = MeshPreCheck(disc[1], disc[2], disc[3])
    /\ d_out' = d_out \cup {IF precheck'.within_limit THEN "within the 1000-node limit"
                            ELSE "WARNING: Node count exceeds limit"}
    /\ d_pc' = AfterPreCheck(precheck')
    /\ UNCHANGED <<d_prog, config, params, disc, calls, d_err>>
    /\ UNCHANGED <<agentVars, envVars, histVars, fenceVars>>

\* simulation_runner.py 67-152, cantilever_poc.py 50-139: the next call into the
\* CAE host, which returns or raises; nothing in the script catches
DrvCaeCall ==
    /\ h_pc = "script" /\ d_pc = "cae"
    /\ LET stmt == Body(d_prog)[Len(calls) + 1] IN
       /\ calls' = Append(calls, stmt.call)
       /\ \E ok \in BOOLEAN :
            IF ~ok
            THEN /\ d_pc' = "raised" /\ d_err' = Raised("AbaqusException", stmt.call)
                 /\ UNCHANGED d_out
            ELSE /\ d_err' = d_err
                 /\ IF Len(calls') = Len(Body(d_prog))
                    THEN /\ d_pc' = "finished"
                         /\ d_out' = d_out \cup {"created and meshed successfully"}
                                     \cup (IF d_prog = "simulation_runner"
                                           THEN {"Script execution finished"} ELSE {})
                    ELSE UNCHANGED <<d_pc, d_out>>
    /\ UNCHANGED <<d_prog, config, params, disc, precheck>>
    /\ UNCHANGED <<agentVars, envVars, histVars, fenceVars>>

(***************************************************************************)
(* The CAE host process.                                                   *)
(***************************************************************************)
\* the host comes up and runs the script, or ends before it does (no licence)
HostStart ==
    /\ h_pc = "starting"
    /\ \/ /\ h_pc' = "script" /\ d_prog' = "simulation_runner" /\ d_pc' = "main"
          /\ config' = NoValue /\ params' = <<>> /\ disc' = <<0, 0, 0>>
          /\ precheck' = NoReport /\ calls' = <<>> /\ d_out' = {} /\ d_err' = NoError
          /\ UNCHANGED exit_code
       \/ /\ h_pc' = "exited" /\ exit_code' = 1
          /\ UNCHANGED drvVars
    /\ UNCHANGED <<fs, run_env, h_cwd>>
    /\ UNCHANGED <<agentVars, histVars, fenceVars>>

\* the script has ended; the exit status is the host's own
HostExit ==
    /\ h_pc = "script" /\ d_pc \in {"finished", "raised"}
    /\ h_pc' = "exited"
    /\ \E code \in {0, 1} : exit_code' = code
    /\ UNCHANGED <<fs, run_env, h_cwd>>
    /\ UNCHANGED <<agentVars, drvVars, histVars, fenceVars>>

(***************************************************************************)
(* The agent: agent.py.  json_string, config_data and run_env are bound     *)
(* again before anything reads them in the next iteration of the loop, so   *)
(* the model drops their values where the iteration ends.                   *)
(***************************************************************************)
ZeroTurn == [llm |-> 0, entered |-> FALSE, writes |-> 0, launches |-> 0, reads |-> 0,
             msg |-> "", opens |-> 0, written |-> <<>>, opened |-> <<>>]

QuitWords == {"q", "quit", "exit"}

\* config_data['MODEL_NAME'] (agent.py 204) finds its key
HasModelName(cd) == IsDict(cd) /\ "MODEL_NAME" \in DOMAIN cd.val

\* agent.py 218-241: the paths, the runner script, the language model client;
\* a missing runner script or a client that cannot be made ends the program
Startup ==
    /\ a_pc = "start"
    /\ \E runner_exists \in BOOLEAN, model_ok \in BOOLEAN :
         a_pc' = IF runner_exists /\ model_ok THEN "prompt" ELSE "exited"
    /\ UNCHANGED <<user_request, json_string, config_data>>
    /\ UNCHANGED <<envVars, drvVars, histVars, fenceVars>>

\* agent.py 244-249: read a line; a quit word leaves the loop
ReadUserInput ==
    /\ a_pc = "prompt"
    /\ \E u \in UserInputs :
         /\ user_request' = u
         /\ a_pc' = IF Lower(u) \in QuitWords THEN "exited" ELSE "llm"
    /\ turn' = ZeroTurn
    /\ UNCHANGED <<json_string, config_data>>
    /\ UNCHANGED <<envVars, drvVars, fenceVars>>

\* agent.py 133-153 and 252-254: one call of the language model; any exception
\* gives None; main goes on to the validation only with a non-empty string
\* A variant that calls the model again when the call raised, instead of
\* returning None to the loop.
GetSimulationConfigFromGeminiRetry ==
    /\ a_pc = "llm"
    /\ \E result \in {NoText} \cup {Some(PostProcess(response)) : response \in Responses} :
         IF Truthy(result)
         THEN /\ a_pc' = "validate"
              /\ json_string' = result
              /\ turn' = [turn EXCEPT !.llm = @ + 1, !.entered = TRUE]
         ELSE /\ a_pc' = IF result.some THEN "prompt" ELSE "llm"
              /\ json_string' = NoText
              /\ turn' = [turn EXCEPT !.llm = @ + 1,
                                      !.msg = IF result.some THEN @
                                              ELSE "Error during Gemini API call"]
    /\ UNCHANGED <<user_request, config_data>>
    /\ UNCHANGED <<envVars, drvVars, fenceVars>>

GetSimulationConfigFromGemini ==
    /\ a_pc = "llm"
    /\ \E result \in {NoText} \cup {Some(PostProcess(response)) : response \in Responses} :
         IF Truthy(result)
         THEN /\ a_pc' = "validate"
              /\ json_string' = result
              /\ turn' = [turn EXCEPT !.llm = @ + 1, !.entered = TRUE]
         ELSE /\ a_pc' = "prompt"
              /\ json_string' = NoText
              /\ turn' = [turn EXCEPT !.llm = @ + 1,
                                      !.msg = IF result.some THEN @
                                              ELSE "Error during Gemini API call"]
    /\ UNCHANGED <<user_request, config_data>>
    /\ UNCHANGED <<envVars, drvVars, fenceVars>>

\* the number of nodes a decoded config asks for (0 when it does not say)
NodesOf(cd) ==
    IF IsDict(cd) /\ HasPath(cd.val, <<"DISCRETIZATION", "elements_length">>)
       /\ HasPath(cd.val, <<"DISCRETIZATION", "elements_width">>)
       /\ HasPath(cd.val, <<"DISCRETIZATION", "elements_height">>)
    THEN (cd.val.DISCRETIZATION.elements_length + 1)
         * (cd.val.DISCRETIZATION.elements_width + 1)
         * (cd.val.DISCRETIZATION.elements_height + 1)
    ELSE 0

\* the variant that also rejects a decoded config of more than NodeLimit nodes
ValidateJsonNodeGate ==
    /\ a_pc = "validate"
    /\ IF JsonDecodeError(json_string.text) \/ NodesOf(JsonLoads(json_string.text)) > NodeLimit
       THEN /\ a_pc' = "prompt"
            /\ json_string' = NoText
            /\ turn' = [turn EXCEPT !.msg = "LLM VALIDATION FAILED"]
            /\ UNCHANGED config_data
       ELSE /\ a_pc' = "save"
            /\ config_data' = JsonLoads(json_string.text)
            /\ turn' = [turn EXCEPT !.msg = "CONFIGURATION GENERATED"]
            /\ UNCHANGED json_string
    /\ UNCHANGED user_request
    /\ UNCHANGED <<envVars, drvVars, fenceVars>>

\* agent.py 162-172: decode the string, or report it and return
ValidateJson ==
    /\ a_pc = "validate"
    /\ IF JsonDecodeError(json_string.text)
       THEN /\ a_pc' = "prompt"
            /\ json_string' = NoText
            /\ turn' = [turn EXCEPT !.msg = "LLM VALIDATION FAILED"]
            /\ UNCHANGED config_data
       ELSE /\ a_pc' = "save"
            /\ config_data' = JsonLoads(json_string.text)
            /\ turn' = [turn EXCEPT !.msg = "CONFIGURATION GENERATED"]
            /\ UNCHANGED json_string
    /\ UNCHANGED user_request
    /\ UNCHANGED <<envVars, drvVars, fenceVars>>

\* agent.py 174-181: write the config file; an IOError returns. open(.., 'w')
\* may fail (file untouched) and the write may fail after open has truncated
SaveConfig ==
    /\ a_pc = "save"
    /\ \/ /\ fs' = [fs EXCEPT ![ConfigPath(ScriptDir)[1]] = Some(JsonDump(config_data))]
          /\ turn' = [turn EXCEPT !.writes = @ + 1, !.opens = @ + 1,
                                  !.written = ConfigPath(ScriptDir),
                                  !.msg = "Configuration file saved"]
          /\ a_pc' = "launch"
          /\ UNCHANGED <<json_string, config_data>>
       \/ /\ a_pc' = "prompt" /\ json_string' = NoText /\ config_data' = NoValue
          /\ turn' = [turn EXCEPT !.opens = @ + 1, !.msg = "Error saving config file"]
          /\ UNCHANGED fs
       \/ /\ fs' = [fs EXCEPT ![ConfigPath(ScriptDir)[1]] = Some(<<>>)]
          /\ a_pc' = "prompt" /\ json_string' = NoText /\ config_data' = NoValue
          /\ turn' = [turn EXCEPT !.opens = @ + 1, !.written = ConfigPath(ScriptDir),
                                  !.msg = "Error saving config file"]
    /\ UNCHANGED user_request
    /\ UNCHANGED <<run_env, h_pc, h_cwd, exit_code>>
    /\ UNCHANGED <<drvVars, fenceVars>>

\* agent.py 183-202 and 210-213: launch the host in the script's directory with
\* ABAQUS_CONFIG_PATH set; FileNotFoundError when there is no such command
\* A variant that launches the host without cwd=script_dir, so that the host
\* inherits whatever directory the agent was started in.
RunAbaqusInheritCwd ==
    /\ a_pc = "launch"
    /\ \E found \in BOOLEAN :
         IF found
         THEN /\ h_pc' = "starting" /\ h_cwd' \in Dirs /\ a_pc' = "wait"
              /\ run_env' = ConfigPath(ScriptDir)
              /\ turn' = [turn EXCEPT !.launches = @ + 1, !.msg = "Running Abaqus command"]
              /\ UNCHANGED <<json_string, config_data>>
         ELSE /\ a_pc' = "prompt" /\ json_string' = NoText /\ config_data' = NoValue
              /\ turn' = [turn EXCEPT !.launches = @ + 1,
                                      !.msg = "Error: 'abaqus' command not found"]
              /\ UNCHANGED <<h_pc, h_cwd, run_env>>
    /\ UNCHANGED <<user_request, fs, exit_code>>
    /\ UNCHANGED <<drvVars, fenceVars>>

RunAbaqus ==
    /\ a_pc = "launch"
    /\ \E found \in BOOLEAN :
         IF found
         THEN /\ h_pc' = "starting" /\ h_cwd' = ScriptDir /\ a_pc' = "wait"
              /\ run_env' = ConfigPath(ScriptDir)
              /\ turn' = [turn EXCEPT !.launches = @ + 1, !.msg = "Running Abaqus command"]
              /\ UNCHANGED <<json_string, config_data>>
         ELSE /\ a_pc' = "prompt" /\ json_string' = NoText /\ config_data' = NoValue
              /\ turn' = [turn EXCEPT !.launches = @ + 1,
                                      !.msg = "Error: 'abaqus' command not found"]
              /\ UNCHANGED <<h_pc, h_cwd, run_env>>
    /\ UNCHANGED <<user_request, fs, exit_code>>
    /\ UNCHANGED <<drvVars, fenceVars>>

\* the variant that launches the host again when it failed
AfterRunRetry ==
    /\ a_pc = "wait" /\ h_pc = "exited"
    /\ IF exit_code # 0
       THEN /\ a_pc' = "launch"
            /\ turn' = [turn EXCEPT !.msg = "Abaqus Run FAILED"]
            /\ UNCHANGED <<json_string, config_data>>
       ELSE /\ a_pc' = IF HasModelName(config_data) THEN "prompt" ELSE "crashed"
            /\ turn' = [turn EXCEPT !.msg = IF HasModelName(config_data)
                                            THEN "Abaqus Run Successful" ELSE "Traceback"]
            /\ json_string' = NoText /\ config_data' = NoValue
    /\ h_pc' = "none" /\ run_env' = <<>> /\ exit_code' = 0
    /\ d_prog' = "none" /\ d_pc' = "idle" /\ config' = NoValue /\ params' = <<>>
    /\ disc' = <<0, 0, 0>> /\ precheck' = NoReport /\ calls' = <<>> /\ d_out' = {}
    /\ d_err' = NoError
    /\ UNCHANGED <<user_request, fs, h_cwd>>
    /\ UNCHANGED fenceVars

\* agent.py 203-209: the host has exited. check=True raises CalledProcessError on
\* a non-zero status; otherwise the success message subscripts config_data with
\* 'MODEL_NAME', and no handler catches the KeyError or TypeError of that
AfterRun ==
    /\ a_pc = "wait" /\ h_pc = "exited"
    /\ a_pc' = IF exit_code # 0 THEN "prompt"
               ELSE IF HasModelName(config_data) THEN "prompt"
               ELSE "crashed"
    /\ turn' = [turn EXCEPT !.msg = IF exit_code # 0 THEN "Abaqus Run FAILED"
                                    ELSE IF HasModelName(config_data)
                                    THEN "Abaqus Run Successful"
                                    ELSE "Traceback"]
    /\ json_string' = NoText /\ config_data' = NoValue
    /\ h_pc' = "none" /\ run_env' = <<>> /\ exit_code' = 0
    /\ d_prog' = "none" /\ d_pc' = "idle" /\ config' = NoValue /\ params' = <<>>
    /\ disc' = <<0, 0, 0>> /\ precheck' = NoReport /\ calls' = <<>> /\ d_out' = {}
    /\ d_err' = NoError
    /\ UNCHANGED <<user_request, fs, h_cwd>>
    /\ UNCHANGED fenceVars

(***************************************************************************)
(* The post-processing of a response, taken alone.                         *)
(***************************************************************************)
\* R between a leading ```json fence and a trailing ``` fence
Wrap(R, sep) == FENCE_JSON \o sep \o R \o sep \o FENCE

Chunks == {FENCE_JSON, FENCE, <<BT>>, <<NL>>, <<Ch("x")>>,
           JsonDump(Dict(FullConfig("CantileverBeam", <<10, 4, 4>>)))}

RECURSIVE Concat(_)
Concat(ss) == IF ss = <<>> THEN <<>> ELSE Head(ss) \o Concat(Tail(ss))

\* the texts made of at most n chunks
TextsOf(n) == {Concat(ss) : ss \in UNION {[1..k -> Chunks] : k \in 0..n}}

ApplyPostProcess ==
    /\ f_pc = "in"
    /\ f_plain' = PostProcess(f_R)
    /\ f_fenced' = PostProcess(Wrap(f_R, f_sep))
    /\ f_pc' = "out"
    /\ UNCHANGED <<f_R, f_sep>>
    /\ UNCHANGED <<agentVars, envVars, drvVars, histVars>>

(***************************************************************************)
(* Specifications.                                                         *)
(***************************************************************************)
AgentIdle ==
    a_pc = "none" /\ user_request = "" /\ json_string = NoText /\ config_data = NoValue
HistIdle  == turn = ZeroTurn
FenceIdle == f_pc = "none" /\ f_R = <<>> /\ f_sep = <<>> /\ f_plain = <<>> /\ f_fenced = <<>>

\* the agent session: main() of agent.py with the host and the driver it launches
Init ==
    /\ a_pc = "start" /\ user_request = "" /\ json_string = NoText /\ config_data = NoValue
    /\ \E old \in {NoText, Some(<<Ch("x")>>),
                   Some(JsonDump(Dict(FullConfig("CantileverBeam", <<20, 4, 4>>))))} :
         fs = [d \in Dirs |-> IF d = ScriptDir THEN old ELSE NoText]
    /\ run_env = <<>> /\ h_pc = "none" /\ h_cwd = ScriptDir /\ exit_code = 0
    /\ DrvIdle /\ HistIdle /\ FenceIdle

Next ==
    \/ Startup \/ ReadUserInput \/ GetSimulationConfigFromGemini \/ ValidateJson
    \/ SaveConfig \/ RunAbaqus \/ AfterRun
    \/ HostStart \/ HostExit
    \/ DrvReadConfig \/ DrvDispatch \/ DrvExtract \/ DrvPreCheck \/ DrvCaeCall

Spec == Init /\ [][Next]_vars

\* a script run in the host by hand: simulation_runner.py on a config.json of
\* the working directory, or cantilever_poc.py on its module constants
InitDriver ==
    /\ AgentIdle /\ HistIdle /\ FenceIdle
    /\ run_env = <<>> /\ h_pc = "script" /\ exit_code = 0
    /\ h_cwd \in Dirs
    /\ config = NoValue /\ params = <<>> /\ precheck = NoReport /\ calls = <<>>
    /\ d_out = {} /\ d_err = NoError
    /\ \/ /\ d_prog = "simulation_runner" /\ d_pc = "main" /\ disc = <<0, 0, 0>>
          /\ \E file \in {NoText, Some(<<Ch("x")>>)}
                         \cup {Some(JsonDump(v)) : v \in DriverValues} :
               fs = [d \in Dirs |-> IF d = h_cwd THEN file ELSE NoText]
       \/ /\ d_prog = "cantilever_poc" /\ d_pc = "precheck" /\ disc = PocDisc
          /\ fs = [d \in Dirs |-> NoText]

NextDriver ==
    \/ DrvReadConfig \/ DrvDispatch \/ DrvExtract \/ DrvPreCheck \/ DrvCaeCall
    \/ HostExit

SpecDriver == InitDriver /\ [][NextDriver]_vars

\* the mesh pre-check on every mesh of positive element counts up to MaxElems
InitMesh ==
    /\ AgentIdle /\ HistIdle /\ FenceIdle
    /\ run_env = <<>> /\ h_pc = "script" /\ exit_code = 0 /\ h_cwd = ScriptDir
    /\ d_prog = "simulation_runner" /\ d_pc = "precheck"
    /\ \E L \in 1..MaxElems, W \in 1..MaxElems, H \in 1..MaxElems :
         /\ disc = <<L, W, H>>
         /\ config = Dict(FullConfig("CantileverBeam", <<L, W, H>>))
         /\ fs = [d \in Dirs |-> IF d = ScriptDir THEN Some(JsonDump(config)) ELSE NoText]
    /\ params = ReadOrder /\ precheck = NoReport /\ calls = <<>>
    /\ d_out = {"Executing CantileverBeam workflow"} /\ d_err = NoError

NextMesh == DrvPreCheck

SpecMesh == InitMesh /\ [][NextMesh]_vars

\* the post-processing on every text of at most MaxChunks chunks
InitFence ==
    /\ AgentIdle /\ HistIdle /\ DrvIdle
    /\ fs = [d \in Dirs |-> NoText]
    /\ run_env = <<>> /\ h_pc = "none" /\ h_cwd = ScriptDir /\ exit_code = 0
    /\ f_pc = "in" /\ f_plain = <<>> /\ f_fenced = <<>>
    /\ f_R \in TextsOf(MaxChunks)
    /\ f_sep \in {<<>>, <<NL>>}

NextFence == ApplyPostProcess

SpecFence == InitFence /\ [][NextFence]_vars

(***************************************************************************)
(* The claims.                                                             *)
(***************************************************************************)
\* the text is not optional white space, one JSON document, optional white space
NotJson(s) == ~(\E i \in 1..Len(s) :
                   /\ IsDoc(s[i])
                   /\ \A j \in 1..Len(s) : j # i => IsSpace(s[j]))

\* C1: in save_config_and_run_abaqus a string that is not decodable as JSON makes
\* the call return at once: the config file keeps its content, nothing is
\* written and the CAE host is not launched.
C1_MalformedJsonAborts ==
    /\ [](turn.msg = "LLM VALIDATION FAILED"
             => a_pc = "prompt" /\ turn.writes = 0 /\ turn.launches = 0 /\ h_pc = "none")
    /\ [][(a_pc = "validate" /\ NotJson(json_string.text))
             => /\ fs' = fs
                /\ h_pc' = "none"
                /\ a_pc' = "prompt"
                /\ turn'.msg = "LLM VALIDATION FAILED"]_vars

\* a call on an undecodable string has returned and an earlier config file is there
C1_Witness ==
    /\ a_pc = "prompt" /\ turn.msg = "LLM VALIDATION FAILED"
    /\ fs[ScriptDir] = Some(JsonDump(Dict(FullConfig("CantileverBeam", <<20, 4, 4>>))))

\* C2: once the loop has started every failure inside a turn ends only that turn:
\* the program ends only when a quit word is typed.
C2_FailuresReturnToPrompt ==
    /\ a_pc # "crashed"
    /\ (a_pc = "exited" /\ user_request # "") => Lower(user_request) \in QuitWords

\* C3: for positive L, W, H the pre-check computes (L+1)(W+1)(H+1) nodes and L*W*H
\* elements and reports the mesh as within the limit exactly when the nodes are
\* at most 1000; (10,4,4) gives 275 within, (20,4,4) 525 within, (30,10,10) 3751
\* exceeding.
C3_MeshPreCheck ==
    precheck.done =>
        LET L == disc[1]
            W == disc[2]
            H == disc[3]
        IN  /\ precheck.total_elements = L * W * H
            /\ precheck.total_nodes
                 = L * W * H + (L * W + L * H + W * H) + (L + W + H) + 1
            /\ precheck.within_limit <=> precheck.total_nodes <= 1000
            /\ ("within the 1000-node limit" \in d_out) <=> precheck.total_nodes <= 1000
            /\ ("WARNING: Node count exceeds limit" \in d_out) <=> precheck.total_nodes > 1000
            /\ disc = <<10, 4, 4>> => precheck.total_nodes = 275 /\ precheck.within_limit
            /\ disc = <<20, 4, 4>> => precheck.total_nodes = 525 /\ precheck.within_limit
            /\ disc = <<30, 10, 10>> => precheck.total_nodes = 3751 /\ ~precheck.within_limit

\* the pre-check has run on a mesh of exactly 1000 nodes
C3_Witness == precheck.done /\ precheck.total_nodes = 1000 /\ precheck.within_limit

\* C4: the agent treats the 1000-node limit as a hard validation step: a decoded
\* config of more than 1000 nodes never gets as far as the launch of the host.
C4_AgentEnforcesNodeLimit ==
    (turn.launches > 0 /\ a_pc = "wait") => NodesOf(config_data) <= 1000

\* C4 as amended: the agent's only validation is the decoding. Every decoded
\* value, whatever its node count, goes on to the write of the config file, and
\* from there to the launch of the host unless the write fails.
C4_AgentValidatesDecodingOnly ==
    /\ [][(a_pc = "validate" /\ ~NotJson(json_string.text))
             => a_pc' = "save" /\ config_data' = JsonLoads(json_string.text)]_vars
    /\ [][a_pc = "save"
             => \/ a_pc' = "launch" /\ fs'[ScriptDir] = Some(JsonDump(config_data))
                \/ a_pc' = "prompt" /\ turn'.msg = "Error saving config file"]_vars
    /\ [][a_pc = "launch" => turn'.launches = turn.launches + 1]_vars

\* the host runs the driver on a config of more than 1000 nodes the agent wrote
C4_Witness ==
    /\ a_pc = "wait" /\ h_pc = "script" /\ NodesOf(config_data) > 1000
    /\ fs[ScriptDir] = Some(JsonDump(config_data))

\* C5: in the driver the node-limit flag is advisory: the calls that follow the
\* pre-check are the same whatever the flag, and only a failure inside the host
\* stops the driver before model creation, meshing and job creation.
C5_NodeLimitAdvisory ==
    /\ [](precheck.done =>
            /\ \A i \in 1..Len(calls) : calls[i] = PocBody[i].call
            /\ d_pc = "finished" => /\ Len(calls) = Len(PocBody)
                                    /\ calls[1] = "mdb.Model"
                                    /\ calls[Len(calls) - 1] = "part.generateMesh"
                                    /\ calls[Len(calls)] = "mdb.Job"
            /\ d_pc = "raised" => /\ d_err.exc = "AbaqusException"
                                  /\ calls # <<>>
                                  /\ d_err.at = calls[Len(calls)])
    /\ [][d_pc = "precheck" => d_pc' = "cae" /\ calls' = <<>>]_vars

\* a run of the driver on a mesh over the limit has created its job
C5_Witness ==
    /\ d_prog = "simulation_runner" /\ d_pc = "finished"
    /\ precheck.done /\ ~precheck.within_limit
    /\ calls # <<>> /\ calls[Len(calls)] = "mdb.Job"

\* C6: for every response text R the post-processing of R between a ```json fence
\* and a ``` fence gives the same string as the post-processing of R alone.
C6_FencedEqualsPlain == f_pc = "out" => f_fenced = f_plain

\* C6 as amended: the post-processing of the fenced R is R.strip(); it is the
\* post-processing of R alone when R has no white space at its ends and neither
\* starts with ```json nor ends with ```.
C6_FencedIsStripped ==
    f_pc = "out" =>
        /\ f_fenced = Strip(f_R)
        /\ (f_R = Strip(f_R) /\ ~StartsWith(f_R, FENCE_JSON) /\ ~EndsWith(f_R, FENCE))
              => f_plain = f_R /\ f_fenced = f_plain

\* a fenced JSON document with new lines inside the fences has been processed
C6_Witness ==
    /\ f_pc = "out" /\ f_sep = <<NL>>
    /\ Len(f_R) = 1 /\ IsDoc(f_R[1])
    /\ f_fenced = f_R /\ f_plain = f_R

\* the value of TEST_TYPE the driver switches on
TestTypeOf(c) == IF "TEST_TYPE" \in DOMAIN c.val THEN c.val.TEST_TYPE ELSE "absent"

\* the driver is past its switch on a config object
PastDispatch ==
    d_prog = "simulation_runner" /\ IsDict(config) /\ d_pc \notin {"idle", "main", "dispatch"}

\* C7: the cantilever routine runs if and only if TEST_TYPE is 'CantileverBeam';
\* 'TaylorImpact' gets a not-implemented notice and no CAE host call; every other
\* value, an absent one too, gets the unknown-type error and no CAE host call.
C7_ClosedDispatch ==
    PastDispatch =>
        /\ ("Executing CantileverBeam workflow" \in d_out)
              <=> TestTypeOf(config) = "CantileverBeam"
        /\ ("TaylorImpact not yet implemented" \in d_out)
              <=> TestTypeOf(config) = "TaylorImpact"
        /\ ("Error: Unknown TEST_TYPE" \in d_out)
              <=> TestTypeOf(config) \notin {"CantileverBeam", "TaylorImpact"}
        /\ TestTypeOf(config) # "CantileverBeam"
              => calls = <<>> /\ params = <<>> /\ ~precheck.done /\ d_pc = "finished"

\* the driver has rejected a config that has no TEST_TYPE
C7_Witness ==
    /\ PastDispatch /\ TestTypeOf(config) = "absent"
    /\ "Error: Unknown TEST_TYPE" \in d_out /\ d_pc = "finished"

\* the subscripts of ReadOrder the config has no key for
MissingPaths(c) == {i \in 1..Len(ReadOrder) : ~HasPath(c.val, ReadOrder[i])}

\* C8: a config without DISCRETIZATION fails with a lookup error at the first
\* access to that key and not earlier; a config that lacks any required section
\* or field fails its lookup before any CAE host call.
C8_LookupFailsBeforeHostCalls ==
    (d_prog = "simulation_runner" /\ IsDict(config)) =>
        /\ (calls # <<>> \/ precheck.done) => MissingPaths(config) = {}
        /\ d_err.exc = "KeyError" =>
             /\ calls = <<>> /\ ~precheck.done
             /\ MissingPaths(config) # {}
             /\ \A p \in Range(params) : HasPath(config.val, p)
        /\ (d_err.exc = "KeyError" /\ "DISCRETIZATION" \notin DOMAIN config.val) =>
             \/ /\ d_err.at = "DISCRETIZATION"
                /\ {<<"MODEL_NAME">>, <<"GEOMETRY">>, <<"MATERIAL">>, <<"LOADING">>}
                      \subseteq Range(params)
             \/ /\ d_err.at # "DISCRETIZATION"
                /\ \E i \in MissingPaths(config) :
                      /\ ReadOrder[i][1] # "DISCRETIZATION"
                      /\ d_err.at = ReadOrder[i][Len(ReadOrder[i])]
        /\ (d_pc = "raised" /\ d_err.exc # "KeyError") => MissingPaths(config) = {}
        /\ (d_pc = "finished" /\ TestTypeOf(config) = "CantileverBeam")
              => MissingPaths(config) = {}

\* the driver has failed on DISCRETIZATION after reading the four keys before it
C8_Witness ==
    /\ d_prog = "simulation_runner" /\ d_pc = "raised"
    /\ d_err = Raised("KeyError", "DISCRETIZATION")
    /\ Len(params) = 11 /\ calls = <<>>

\* C9: each persisted config is consumed exactly once: in every turn in which the
\* config file is written the driver reads it exactly one time before it is next
\* overwritten, and nothing modifies it between the write and the read.
C9_ConsumedExactlyOnce ==
    (a_pc = "prompt" /\ turn.writes = 1) => turn.reads = 1

\* C9 as amended: the driver reads a written config file at most one time before
\* it is next overwritten: exactly once when the host is launched and runs the
\* driver script, not at all when the host command is not found or the host ends
\* before the script; only the save of the wrapper changes the file, and what the
\* driver decodes is what the wrapper wrote.
C9_ConsumedAtMostOnce ==
    /\ [](/\ turn.reads <= turn.writes /\ turn.writes <= 1
          /\ (a_pc = "wait" /\ d_pc \notin {"idle", "main"}) => turn.reads = 1
          /\ (a_pc = "wait" /\ d_pc \in {"idle", "main"}) => turn.reads = 0
          /\ (a_pc = "prompt" /\ turn.msg = "Error: 'abaqus' command not found")
                => turn.writes = 1 /\ turn.reads = 0
          /\ a_pc \in {"launch", "wait"} => fs[ScriptDir] = Some(JsonDump(config_data))
          /\ (a_pc = "wait" /\ d_pc \notin {"idle", "main"}) => config = config_data)
    /\ [][fs' # fs => a_pc = "save"]_vars

\* the host has run the driver once on the config file of this turn and has exited
C9_Witness ==
    /\ a_pc = "wait" /\ h_pc = "exited" /\ d_pc = "finished"
    /\ turn.writes = 1 /\ turn.reads = 1

\* the steps of the claim, each with the CAE host calls that make it up
PhaseCalls ==
    << {"mdb.Model"},
       {"model.ConstrainedSketch", "sketch.rectangle", "model.Part", "part.BaseSolidExtrude"},
       {"model.Material", "material.Elastic", "model.HomogeneousSolidSection",
        "part.SectionAssignment"},
       {"assembly.Instance"},
       {"model.StaticStep"},
       {"instance.faces.findAt", "instance.vertices.findAt",
        "assembly.Set:Set-FixedEnd", "assembly.Set:Set-LoadPoint"},
       {"model.EncastreBC", "model.ConcentratedForce"},
       {"part.setMeshControls"},
       {"part.edges.findAt:len_1", "part.edges.findAt:len_2", "part.edges.findAt:len_3",
        "part.edges.findAt:len_4", "part.edges.findAt:wid_1", "part.edges.findAt:wid_2",
        "part.edges.findAt:wid_3", "part.edges.findAt:wid_4", "part.edges.findAt:hgt_1",
        "part.edges.findAt:hgt_2", "part.edges.findAt:hgt_3", "part.edges.findAt:hgt_4"},
       {"part.seedEdgeByNumber:length_edges"},
       {"part.seedEdgeByNumber:width_edges"},
       {"part.seedEdgeByNumber:height_edges"},
       {"part.generateMesh"},
       {"mdb.Job"} >>

PhaseOf(c) == CHOOSE k \in 1..Len(PhaseCalls) : c \in PhaseCalls[k]

\* C10: every cantilever run issues its CAE host calls in one fixed order, from
\* the creation of the model to the creation of the job: the mesh is not
\* generated before the three edge groups are seeded, the job is not created
\* before the mesh is generated, and after a step that fails no step is executed.
C10_FixedCallOrder ==
    /\ [](/\ \A i \in 1..Len(calls) : \E k \in 1..Len(PhaseCalls) : calls[i] \in PhaseCalls[k]
          /\ \A i, j \in 1..Len(calls) :
                i < j => calls[i] # calls[j] /\ PhaseOf(calls[i]) <= PhaseOf(calls[j])
          /\ \A i \in 1..Len(calls) : \A k \in 1..(PhaseOf(calls[i]) - 1) :
                PhaseCalls[k] \subseteq {calls[j] : j \in 1..(i - 1)}
          /\ (d_pc = "finished" /\ calls # <<>>)
                => Range(calls) = UNION {PhaseCalls[k] : k \in 1..Len(PhaseCalls)}
          /\ (d_pc = "raised" /\ calls # <<>>)
                => d_err.exc = "AbaqusException" /\ d_err.at = calls[Len(calls)])
    /\ [][d_err # NoError => calls' = calls /\ d_pc' = "raised"]_vars

\* the generation of the mesh has failed after the three seedings, and the job
\* has not been created
C10_Witness ==
    /\ d_prog = "simulation_runner" /\ d_pc = "raised"
    /\ d_err = Raised("AbaqusException", "part.generateMesh")
    /\ "part.seedEdgeByNumber:height_edges" \in Range(calls)
    /\ "mdb.Job" \notin Range(calls)

(***************************************************************************)
(* C11.  A turn (from one prompt for input to the next) is a single        *)
(* attempt: the language model is called at most once, config.json is      *)
(* opened for writing at most once and the CAE host is launched at most    *)
(* once, whatever those operations return; the later stages are reached    *)
(* only through that one call, a host runs only after that one launch, and *)
(* a turn whose call raised or returned an empty text is back at the       *)
(* prompt with no open of the file, no launch, no host and no read.        *)
(***************************************************************************)
C11_OneAttemptPerTurn ==
    /\ turn.llm <= 1 /\ turn.opens <= 1 /\ turn.launches <= 1
    /\ turn.writes <= turn.opens /\ turn.launches <= turn.writes
    /\ a_pc \in {"validate", "save", "launch", "wait", "crashed"}
          => turn.llm = 1 /\ turn.entered
    /\ h_pc # "none" => turn.launches = 1 /\ a_pc = "wait"
    /\ turn.msg = "Error during Gemini API call" => turn.llm = 1 /\ ~turn.entered
    /\ (turn.llm >= 1 /\ ~turn.entered)
          => /\ a_pc = "prompt"
             /\ turn.opens = 0 /\ turn.writes = 0 /\ turn.written = <<>>
             /\ turn.launches = 0 /\ turn.reads = 0 /\ h_pc = "none"

\* A complete turn: one call, one write, one launch, and the agent is back at
\* the prompt.
C11_Witness ==
    /\ a_pc = "prompt" /\ turn.msg = "Abaqus Run Successful"
    /\ turn.llm = 1 /\ turn.opens = 1 /\ turn.writes = 1 /\ turn.launches = 1

\* A turn whose call raised, and a turn whose call returned an empty text.
C11_FailedCallTurn ==
    /\ a_pc = "prompt" /\ turn.msg = "Error during Gemini API call"
    /\ turn.llm = 1 /\ turn.opens = 0 /\ turn.launches = 0

C11_EmptyResultTurn ==
    /\ a_pc = "prompt" /\ turn.msg = "" /\ turn.llm = 1 /\ ~turn.entered
    /\ turn.opens = 0 /\ turn.launches = 0

(***************************************************************************)
(* C12.  In an agent session the driver reads the config the agent wrote   *)
(* in the same turn: the agent writes <script_dir>/config.json and nothing *)
(* else, a host runs only after that write, with script_dir as its working *)
(* directory and ABAQUS_CONFIG_PATH naming the same file, the driver opens *)
(* config.json of its working directory, which is the path written, and    *)
(* once the driver is past the read the file still holds the text just     *)
(* written and the driver's config is the agent's config_data.             *)
(***************************************************************************)
C12_DriverReadsPersistedConfig ==
    /\ turn.written \in {<<>>, ConfigPath(ScriptDir)}
    /\ h_pc # "none"
          => /\ h_cwd = ScriptDir /\ run_env = ConfigPath(ScriptDir)
             /\ turn.written = ConfigPath(ScriptDir) /\ turn.writes = 1
             /\ fs[ScriptDir] = Some(JsonDump(config_data))
    /\ turn.opened # <<>> => turn.opened = turn.written /\ turn.reads = 1
    /\ (a_pc = "wait" /\ d_pc \notin {"idle", "main"})
          => /\ turn.opened = <<h_cwd, CONFIG_FILE>>
             /\ d_err \notin {Raised("IOError", CONFIG_FILE),
                               Raised("JSONDecodeError", CONFIG_FILE)}
             /\ fs[h_cwd] = Some(JsonDump(config_data))
             /\ config = config_data

\* The driver is past the read in an agent session, over a config.json that
\* held another document before the turn.
C12_Witness ==
    /\ a_pc = "wait" /\ d_pc = "dispatch"
    /\ turn.written = ConfigPath(ScriptDir) /\ turn.opened = turn.written
    /\ turn.reads = 1 /\ config = config_data
    /\ config # Dict(FullConfig("CantileverBeam", <<20, 4, 4>>))

====
